---- MODULE Spec2Model ----
(***************************************************************************)
(* Sales dashboard (app.py): a Streamlit script that loads a cached        *)
(* synthetic order table, filters it by the Region and Category            *)
(* multiselects, and renders three KPIs and the charts of five tabs.       *)
(*                                                                         *)
(* A session re-runs the whole script top to bottom after every widget     *)
(* change.  One run is modelled in three steps, cut where the script hands *)
(* elements to the page: lines 29-52 (load, widgets, filter), lines 62-68  *)
(* (KPIs) and lines 73-133 (tabs).  A widget change made while a run is in *)
(* flight discards that run and starts a new one.                          *)
(*                                                                         *)
(* Money is kept in integer cents, so sums are exact; an average is kept   *)
(* as the exact fraction sum/count, and the mean of no rows is NaN as in   *)
(* pandas.                                                                 *)
(***************************************************************************)
EXTENDS Integers, Sequences, FiniteSets, TLC

\* ------------------------------------------------------------------ bounds
\* Rows of the synthetic table (n_rows is 1000 in the script).
NRows == 14
\* Number of generator seeds tried (the script fixes the seed 42).
NSeeds == 3
\* How many of the script's region names / category names the generator uses.
NRegions == 2
NCategories == 2

\* ------------------------------------------------------- program constants
FirstSeed == 42
NDays == 731
ProductLo == 1
ProductHi == 51
QuantityLo == 1
QuantityHi == 10
PriceLo == 1000
PriceHi == 10000
CustomerLo == 100
CustomerHi == 500
TopN == 10

AllRegions == <<"North", "South", "East", "West", "Central">>
AllCategories == <<"Electronics", "Clothing", "Home Goods", "Books">>

Min(a, b) == IF a < b THEN a ELSE b

RegionList == SubSeq(AllRegions, 1, Min(NRegions, Len(AllRegions)))
CategoryList == SubSeq(AllCategories, 1, Min(NCategories, Len(AllCategories)))

Seeds == FirstSeed .. (FirstSeed + NSeeds - 1)
Sessions == {"s1", "s2"}

Range(s) == {s[i] : i \in 1..Len(s)}

\* ---------------------------------------------------------- string order
\* pandas sorts group keys; the keys here are strings, ordered as Python
\* orders them (code point by code point).
RegionsSorted == <<"Central", "East", "North", "South", "West">>
CategoriesSorted == <<"Books", "Clothing", "Electronics", "Home Goods">>

IndexOf(seq, x) == CHOOSE i \in 1..Len(seq) : seq[i] = x

RegionRank(r) == IndexOf(RegionsSorted, r)
CategoryRank(c) == IndexOf(CategoriesSorted, c)

ProductName(i) == "Product_" \o ToString(i)

Digits(i) == IF i < 10 THEN <<i>> ELSE <<i \div 10, i % 10>>

\* "Product_" + digits of i sorts before "Product_" + digits of j
LexLess(i, j) ==
    LET a == Digits(i)
        b == Digits(j)
    IN  \/ a[1] < b[1]
        \/ /\ a[1] = b[1]
           /\ \/ Len(a) < Len(b)
              \/ Len(a) = 2 /\ Len(b) = 2 /\ a[2] < b[2]

ProductIds == ProductLo .. (ProductHi - 1)

ProductRankOf ==
    [name \in {ProductName(i) : i \in ProductIds} |->
        LET i == CHOOSE k \in ProductIds : ProductName(k) = name
        IN  Cardinality({j \in ProductIds : LexLess(j, i)}) + 1]

ProductRank(p) == ProductRankOf[p]

\* ------------------------------------------------------------- generator
\* np.random is a deterministic stream once seeded; a linear congruential
\* stream stands in for it.
LcgA == 75
LcgC == 74
LcgM == 32749

\* The map x |-> a*x + c (mod LcgM) as the pair <<a, c>>; After(f, g) is
\* "g, then f".
After(f, g) == <<(f[1] * g[1]) % LcgM, (f[1] * g[2] + f[2]) % LcgM>>

\* k steps of the generator as one map
RECURSIVE Steps(_)
Steps(k) ==
    IF k = 0 THEN <<1, 0>>
    ELSE IF k % 2 = 1 THEN After(<<LcgA, LcgC>>, Steps(k - 1))
    ELSE LET h == Steps(k \div 2) IN After(h, h)

\* The k-th output of the stream seeded with seed
Output(seed, k) == LET f == Steps(k) IN (f[1] * seed + f[2]) % LcgM

\* The k-th draw of column col (0-based), columns drawn one after the other
\* as the DataFrame literal evaluates them.
Draw(seed, col, k) == Output(seed, col * NRows + k)

\* np.random.randint(lo, hi): lo <= value < hi
RandInt(x, lo, hi) == lo + (x % (hi - lo))

\* np.random.choice(list)
Choice(x, list) == list[1 + (x % Len(list))]

\* pd.date_range yields one midnight timestamp per day (kept in hours);
\* .dt.date drops the time of day.
HoursPerDay == 24
DayStart(d) == d * HoursPerDay
DtDate(ts) == ts \div HoursPerDay

\* Mutant of TotalPrice: the sum in place of the product
TotalPriceSum(q, u) == q + u

\* data['TotalPrice'] = data['Quantity'] * data['UnitPrice']
TotalPrice(q, u) == q * u

load_data(seed) ==
    [i \in 1..NRows |->
        LET q == RandInt(Draw(seed, 4, i), QuantityLo, QuantityHi)
            u == RandInt(Draw(seed, 5, i), PriceLo, PriceHi)
        IN  [OrderID    |-> i,
             Date       |-> DayStart(RandInt(Draw(seed, 0, i), 1, NDays + 1)),
             Region     |-> Choice(Draw(seed, 1, i), RegionList),
             Category   |-> Choice(Draw(seed, 2, i), CategoryList),
             Product    |-> ProductName(RandInt(Draw(seed, 3, i), ProductLo, ProductHi)),
             Quantity   |-> q,
             UnitPrice  |-> u,
             CustomerID |-> RandInt(Draw(seed, 6, i), CustomerLo, CustomerHi),
             TotalPrice |-> TotalPrice(q, u)]]


\* ------------------------------------------------------- table operations
Col(df, c) == [i \in 1..Len(df) |-> df[i][c]]

RECURSIVE SumSeq(_)
SumSeq(s) == IF s = <<>> THEN 0 ELSE s[1] + SumSeq(Tail(s))

\* Series.unique(): the values in order of first appearance
RECURSIVE Unique(_)
Unique(s) ==
    IF s = <<>> THEN <<>>
    ELSE LET u == Unique(SubSeq(s, 1, Len(s) - 1))
             x == s[Len(s)]
         IN  IF x \in Range(u) THEN u ELSE Append(u, x)

\* Series.nunique()
NUnique(s) == Cardinality(Range(s))

\* Series.mean(): NaN for an empty series
NaN == [nan |-> TRUE, num |-> 0, den |-> 1]
Frac(n, d) == [nan |-> FALSE, num |-> n, den |-> d]
Mean(s) == IF Len(s) = 0 THEN NaN ELSE Frac(SumSeq(s), Len(s))

\* Ascending order of a set of integers
RECURSIVE SortInts(_)
SortInts(S) ==
    IF S = {} THEN <<>>
    ELSE LET m == CHOOSE x \in S : \A y \in S : x <= y
         IN  <<m>> \o SortInts(S \ {m})

\* groupby(keys)[c].sum(): keys[i] is the group key of row i and vals[i] its
\* value in column c; one <<key, sum>> per key present, in ascending key
\* order (groupby sorts its keys); rank[k] is the place of key k in that
\* order.
GroupSum(keys, rank, vals) ==
    LET present == Range(keys)
        ranks == SortInts({rank[k] : k \in present})
    IN  [n \in 1..Len(ranks) |->
            LET key == CHOOSE k \in present : rank[k] = ranks[n]
                rows == SortInts({i \in 1..Len(keys) : keys[i] = key})
            IN  <<key, SumSeq([j \in 1..Len(rows) |-> vals[rows[j]]])>>]

\* The group keys of the rows, and the place of each key present in the
\* sorted key order
KeysOf(df, KeyOf(_)) == [i \in 1..Len(df) |-> KeyOf(df[i])]
RanksOf(keys, RankOf(_)) == [k \in Range(keys) |-> RankOf(k)]

\* DataFrame.rename(columns={old: new})
Rename(rows, old, new) ==
    [i \in 1..Len(rows) |->
        [f \in ((DOMAIN rows[i]) \ {old}) \cup {new} |->
            IF f = new THEN rows[i][old] ELSE rows[i][f]]]

RemoveAt(s, i) == SubSeq(s, 1, i - 1) \o SubSeq(s, i + 1, Len(s))

\* Series.nsmallest(n), used by the mutant of product_sales
RECURSIVE NSmallest(_, _)
NSmallest(s, n) ==
    IF n = 0 \/ s = <<>> THEN <<>>
    ELSE LET i == CHOOSE i \in 1..Len(s) :
                    /\ \A j \in 1..Len(s) : s[j][2] >= s[i][2]
                    /\ \A j \in 1..(i - 1) : s[j][2] > s[i][2]
         IN  <<s[i]>> \o NSmallest(RemoveAt(s, i), n - 1)

\* Series.nlargest(n) (keep='first'): the n largest values in descending
\* order, equal values in their order in the series.
RECURSIVE NLargest(_, _)
NLargest(s, n) ==
    IF n = 0 \/ s = <<>> THEN <<>>
    ELSE LET i == CHOOSE i \in 1..Len(s) :
                    /\ \A j \in 1..Len(s) : s[j][2] <= s[i][2]
                    /\ \A j \in 1..(i - 1) : s[j][2] < s[i][2]
         IN  <<s[i]>> \o NLargest(RemoveAt(s, i), n - 1)

\* ------------------------------------------------------------------ filter
\* Mutant of Filter: | in place of &
FilterEither(df, regs, cats) ==
    SelectSeq(df, LAMBDA r : r.Region \in regs \/ r.Category \in cats)

\* df[(df['Region'].isin(regions)) & (df['Category'].isin(categories))]
Filter(df, regs, cats) ==
    SelectSeq(df, LAMBDA r : r.Region \in regs /\ r.Category \in cats)

\* options=df['Region'].unique(), default=df['Region'].unique()
RegionOptions(df) == Unique(Col(df, "Region"))
CategoryOptions(df) == Unique(Col(df, "Category"))

\* -------------------------------------------------------------------- KPIs
\* df_filtered['TotalPrice'].sum()
TotalSales(view) == SumSeq(Col(view, "TotalPrice"))

\* Mutant of AvgOrderValue: the mean of the wrong column
AvgUnitPrice(view) == Mean(Col(view, "UnitPrice"))

\* df_filtered['TotalPrice'].mean()
AvgOrderValue(view) == Mean(Col(view, "TotalPrice"))

\* df_filtered['OrderID'].nunique()
TotalOrders(view) == NUnique(Col(view, "OrderID"))

\* f"{x:,.2f}" of a non-negative number of cents
Pad2(n) == IF n < 10 THEN "0" \o ToString(n) ELSE ToString(n)
Pad3(n) == IF n < 10 THEN "00" \o ToString(n)
           ELSE IF n < 100 THEN "0" \o ToString(n) ELSE ToString(n)

RECURSIVE Commas(_)
Commas(n) == IF n < 1000 THEN ToString(n)
             ELSE Commas(n \div 1000) \o "," \o Pad3(n % 1000)

\* the nearest whole cent of num/den, halves to the even cent
RoundCents(x) ==
    LET q == x.num \div x.den
        r == x.num % x.den
    IN  IF 2 * r > x.den THEN q + 1
        ELSE IF 2 * r < x.den THEN q
        ELSE q + (q % 2)

FormatMoney(x) ==
    IF x.nan THEN "$nan"
    ELSE LET c == RoundCents(x)
         IN  "$" \o Commas(c \div 100) \o "." \o Pad2(c % 100)

Element(kind, tab, title, data) ==
    [kind |-> kind, tab |-> tab, title |-> title, data |-> data]

Metric(label, value) == Element("metric", "", label, <<value>>)
Chart(tab, title, data) == Element("plotly_chart", tab, title, data)
Info(tab, text) == Element("info", tab, text, <<>>)

KpiElements(ts, avg, n) ==
    << Metric("Total Sales", FormatMoney(Frac(ts, 1))),
       Metric("Average Order Value", FormatMoney(avg)),
       Metric("Total Orders", ToString(n)) >>


\* ------------------------------------------------------------ aggregations
Ident(x) == x
DateOf(r) == DtDate(r.Date)
DateCategoryOf(r) == <<DtDate(r.Date), r.Category>>
DateCategoryRank(k) == k[1] * (Len(CategoriesSorted) + 1) + CategoryRank(k[2])
RegionOf(r) == r.Region
CategoryOf(r) == r.Category
CategoryRegionOf(r) == <<r.Category, r.Region>>
CategoryRegionRank(k) == CategoryRank(k[1]) * (Len(RegionsSorted) + 1) + RegionRank(k[2])
ProductOf(r) == r.Product
CustomerOf(r) == r.CustomerID

ByDate(view, c) ==
    LET k == KeysOf(view, DateOf) IN GroupSum(k, RanksOf(k, Ident), Col(view, c))
ByDateCategory(view, c) ==
    LET k == KeysOf(view, DateCategoryOf)
    IN  GroupSum(k, RanksOf(k, DateCategoryRank), Col(view, c))
ByRegion(view, c) ==
    LET k == KeysOf(view, RegionOf) IN GroupSum(k, RanksOf(k, RegionRank), Col(view, c))
ByCategoryRegion(view, c) ==
    LET k == KeysOf(view, CategoryRegionOf)
    IN  GroupSum(k, RanksOf(k, CategoryRegionRank), Col(view, c))
ByCategory(view, c) ==
    LET k == KeysOf(view, CategoryOf) IN GroupSum(k, RanksOf(k, CategoryRank), Col(view, c))
ByProduct(view, c) ==
    LET k == KeysOf(view, ProductOf) IN GroupSum(k, RanksOf(k, ProductRank), Col(view, c))
ByCustomer(view, c) ==
    LET k == KeysOf(view, CustomerOf) IN GroupSum(k, RanksOf(k, Ident), Col(view, c))

\* df_filtered.groupby(df_filtered['Date'].dt.date)['TotalPrice'].sum().reset_index()
\* then rename(columns={'Date': 'Sales Date'}, inplace=True) on the result
daily_sales(view) ==
    LET g == ByDate(view, "TotalPrice")
    IN  Rename([i \in 1..Len(g) |-> [Date |-> g[i][1], TotalPrice |-> g[i][2]]],
               "Date", "Sales Date")

\* df_filtered.groupby([df_filtered['Date'].dt.date, 'Category'])['TotalPrice']
\* .sum().reset_index(), then the same rename
sales_trend_category(view) ==
    LET g == ByDateCategory(view, "TotalPrice")
    IN  Rename([i \in 1..Len(g) |->
                   [Date |-> g[i][1][1], Category |-> g[i][1][2], TotalPrice |-> g[i][2]]],
               "Date", "Sales Date")

\* df_filtered.groupby('Region')['TotalPrice'].sum().reset_index()
sales_by_region(view) ==
    LET g == ByRegion(view, "TotalPrice")
    IN  [i \in 1..Len(g) |-> [Region |-> g[i][1], TotalPrice |-> g[i][2]]]

\* df_filtered.groupby(['Category', 'Region'])['TotalPrice'].sum().reset_index()
sales_by_category_region(view) ==
    LET g == ByCategoryRegion(view, "TotalPrice")
    IN  [i \in 1..Len(g) |->
            [Category |-> g[i][1][1], Region |-> g[i][1][2], TotalPrice |-> g[i][2]]]

\* Mutant of sales_by_category: the sum of the wrong column
quantity_by_category(view) ==
    LET g == ByCategory(view, "Quantity")
    IN  [i \in 1..Len(g) |-> [Category |-> g[i][1], TotalPrice |-> g[i][2]]]

\* df_filtered.groupby('Category')['TotalPrice'].sum().reset_index()
sales_by_category(view) ==
    LET g == ByCategory(view, "TotalPrice")
    IN  [i \in 1..Len(g) |-> [Category |-> g[i][1], TotalPrice |-> g[i][2]]]

\* Mutant of product_sales: nsmallest in place of nlargest
product_sales_smallest(view) ==
    LET g == NSmallest(ByProduct(view, "TotalPrice"), TopN)
    IN  [i \in 1..Len(g) |-> [Product |-> g[i][1], TotalPrice |-> g[i][2]]]

\* groupby('Product')['TotalPrice'].sum().nlargest(10).reset_index()
product_sales(view) ==
    LET g == NLargest(ByProduct(view, "TotalPrice"), TopN)
    IN  [i \in 1..Len(g) |-> [Product |-> g[i][1], TotalPrice |-> g[i][2]]]

\* groupby('Product')['Quantity'].sum().nlargest(10).reset_index()
quantity_by_product(view) ==
    LET g == NLargest(ByProduct(view, "Quantity"), TopN)
    IN  [i \in 1..Len(g) |-> [Product |-> g[i][1], Quantity |-> g[i][2]]]

\* groupby('CustomerID').agg(TotalSpending=sum of TotalPrice,
\*                           OrderCount=nunique of OrderID).reset_index()
customer_spending(view) ==
    LET g == ByCustomer(view, "TotalPrice")
    IN  [i \in 1..Len(g) |->
            [CustomerID    |-> g[i][1],
             TotalSpending |-> g[i][2],
             OrderCount    |-> NUnique(Col(SelectSeq(view,
                                  LAMBDA r : r.CustomerID = g[i][1]), "OrderID"))]]

\* --------------------------------------------------------------------- tabs
\* Headings and page chrome are left out; every st.plotly_chart and the
\* st.info placeholder are kept.
TabNames == <<"Time Series", "Regional Analysis", "Category Analysis",
              "Product Analysis", "Customer Insights">>

Tab1(view) ==
    << Chart(TabNames[1], "Daily Sales Trend", daily_sales(view)),
       Chart(TabNames[1], "Sales Trend Over Time by Category", sales_trend_category(view)) >>

Tab2(view) ==
    << Chart(TabNames[2], "Total Sales by Region", sales_by_region(view)),
       Chart(TabNames[2], "Sales by Category and Region (Grouped)",
             sales_by_category_region(view)) >>

\* Mutant of Tab3: a second chart where the script has its placeholder
Tab3Extra(view) ==
    << Chart(TabNames[3], "Sales Share by Category", sales_by_category(view)),
       Chart(TabNames[3], "Sales Share by Category", sales_by_category(view)) >>

Tab3(view) ==
    << Chart(TabNames[3], "Sales Share by Category", sales_by_category(view)),
       Info(TabNames[3], "More category-specific charts can be added here.") >>

Tab4(view) ==
    << Chart(TabNames[4], "Top 10 Products by Total Sales", product_sales(view)),
       Chart(TabNames[4], "Top 10 Products by Quantity Sold", quantity_by_product(view)) >>

Tab5(view) ==
    << Chart(TabNames[5], "Customer Spending vs. Order Frequency", customer_spending(view)),
       Chart(TabNames[5], "Distribution of Unit Prices", Col(view, "UnitPrice")) >>

TabElements(view) == Tab1(view) \o Tab2(view) \o Tab3(view) \o Tab4(view) \o Tab5(view)

\* ------------------------------------------------------------------- state
VARIABLES
    seed,            \* the generator's seed (np.random.seed)
    cache,           \* st.cache_data entry of load_data: loaded?, table
    widgets,         \* per session: the multiselects' state
    pc,              \* per session: "off", "run", "kpis", "tabs" or "idle"
    regions,         \* per session: script variable regions (line 47)
    categories,      \* per session: script variable categories (line 48)
    df_filtered,     \* per session: script variable df_filtered (line 52)
    total_sales,     \* per session: script variable (line 62)
    avg_order_value, \* per session: script variable (line 63)
    total_orders,    \* per session: script variable (line 64)
    out,             \* per session: the elements the run in flight has shown
    hist             \* history: the first completed run (selections, elements)
                     \* and whether a run with other selections followed it

vars == <<seed, cache, widgets, pc, regions, categories, df_filtered,
          total_sales, avg_order_value, total_orders, out, hist>>

locals == <<regions, categories, df_filtered, total_sales, avg_order_value,
            total_orders>>

NoWidgets == [shown |-> FALSE, region_options |-> <<>>, category_options |-> <<>>,
              regions |-> {}, categories |-> {}]
NoHist == [have |-> FALSE, regions |-> {}, categories |-> {}, out |-> <<>>]

InitCommon ==
    /\ seed \in Seeds
    /\ cache = [loaded |-> FALSE, data |-> <<>>]
    /\ widgets = [s \in Sessions |-> NoWidgets]
    /\ regions = [s \in Sessions |-> {}]
    /\ categories = [s \in Sessions |-> {}]
    /\ df_filtered = [s \in Sessions |-> <<>>]
    /\ total_sales = [s \in Sessions |-> 0]
    /\ avg_order_value = [s \in Sessions |-> NaN]
    /\ total_orders = [s \in Sessions |-> 0]
    /\ out = [s \in Sessions |-> <<>>]

\* One browser session
Init ==
    /\ InitCommon
    /\ pc = [s \in Sessions |-> IF s = "s1" THEN "run" ELSE "off"]
    /\ hist = [on |-> FALSE, first |-> NoHist, others |-> FALSE]

\* One browser session, with the history of completed runs kept
InitHistory ==
    /\ InitCommon
    /\ pc = [s \in Sessions |-> IF s = "s1" THEN "run" ELSE "off"]
    /\ hist = [on |-> TRUE, first |-> NoHist, others |-> FALSE]

\* Two browser sessions on one server process
InitSessions ==
    /\ InitCommon
    /\ seed = FirstSeed
    /\ pc = [s \in Sessions |-> "run"]
    /\ hist = [on |-> FALSE, first |-> NoHist, others |-> FALSE]

\* ---------------------------------------------------------------- actions
\* @st.cache_data: the first call runs load_data, later calls get the stored
\* table; every caller receives a copy, so a run leaves the entry as it is.
\* What load_data() returns to the script:
CachedTable == IF cache.loaded THEN cache.data ELSE load_data(seed)

\* Mutant of CacheKept: the run's filtering reaches the stored table
CacheShared(data, view) == [loaded |-> TRUE, data |-> view]

\* The entry after a run that got the table data and filtered it to view
CacheKept(data, view) == [loaded |-> TRUE, data |-> data]

\* st.multiselect: the default on the first run, the session's value after
Multiselect(w, df) ==
    LET ro == RegionOptions(df)
        co == CategoryOptions(df)
    IN  IF w.shown
        THEN [w EXCEPT !.region_options = ro, !.category_options = co]
        ELSE [shown |-> TRUE, region_options |-> ro, category_options |-> co,
              regions |-> Range(ro), categories |-> Range(co)]

\* Lines 29-52: df = load_data(), the two multiselects, df_filtered
Run(s) ==
    /\ pc[s] = "run"
    /\ LET df == CachedTable
           w == Multiselect(widgets[s], df)
           view == Filter(df, w.regions, w.categories)
       IN  /\ cache' = CacheKept(df, view)
           /\ widgets' = [widgets EXCEPT ![s] = w]
           /\ regions' = [regions EXCEPT ![s] = w.regions]
           /\ categories' = [categories EXCEPT ![s] = w.categories]
           /\ df_filtered' = [df_filtered EXCEPT ![s] = view]
    /\ out' = [out EXCEPT ![s] = <<>>]
    /\ pc' = [pc EXCEPT ![s] = "kpis"]
    /\ UNCHANGED <<seed, total_sales, avg_order_value, total_orders, hist>>

\* Lines 62-68: the three KPIs
Kpis(s) ==
    /\ pc[s] = "kpis"
    /\ LET ts == TotalSales(df_filtered[s])
           avg == AvgOrderValue(df_filtered[s])
           n == TotalOrders(df_filtered[s])
       IN  /\ total_sales' = [total_sales EXCEPT ![s] = ts]
           /\ avg_order_value' = [avg_order_value EXCEPT ![s] = avg]
           /\ total_orders' = [total_orders EXCEPT ![s] = n]
           /\ out' = [out EXCEPT ![s] = @ \o KpiElements(ts, avg, n)]
    /\ pc' = [pc EXCEPT ![s] = "tabs"]
    /\ UNCHANGED <<seed, cache, widgets, regions, categories, df_filtered, hist>>

\* Mutant of Tabs: the charts are drawn from df, not from df_filtered
TabsUnfiltered(s) ==
    /\ pc[s] = "tabs"
    /\ out' = [out EXCEPT ![s] = @ \o TabElements(cache.data)]
    /\ pc' = [pc EXCEPT ![s] = "idle"]
    /\ hist' = hist
    /\ UNCHANGED <<seed, cache, widgets, locals>>

\* Lines 73-133: the five tabs; the run is complete after them
Tabs(s) ==
    /\ pc[s] = "tabs"
    /\ out' = [out EXCEPT ![s] = @ \o TabElements(df_filtered[s])]
    /\ pc' = [pc EXCEPT ![s] = "idle"]
    /\ hist' = IF ~hist.on THEN hist
               ELSE IF ~hist.first.have
               THEN [hist EXCEPT !.first = [have |-> TRUE,
                                            regions |-> regions[s],
                                            categories |-> categories[s],
                                            out |-> out'[s]]]
               ELSE IF <<regions[s], categories[s]>>
                          # <<hist.first.regions, hist.first.categories>>
               THEN [hist EXCEPT !.others = TRUE]
               ELSE hist
    /\ UNCHANGED <<seed, cache, widgets, locals>>

Toggle(S, x) == IF x \in S THEN S \ {x} ELSE S \cup {x}

\* Mutant of Rerun: the selections are kept in one place for all sessions
RerunAll(s, w) ==
    /\ widgets' = [t \in Sessions |->
                      IF t = s \/ widgets[t].shown
                      THEN [widgets[t] EXCEPT !.regions = w.regions,
                                              !.categories = w.categories]
                      ELSE widgets[t]]
    /\ pc' = [pc EXCEPT ![s] = "run"]
    /\ out' = [out EXCEPT ![s] = <<>>]
    /\ regions' = [regions EXCEPT ![s] = {}]
    /\ categories' = [categories EXCEPT ![s] = {}]
    /\ df_filtered' = [df_filtered EXCEPT ![s] = <<>>]
    /\ total_sales' = [total_sales EXCEPT ![s] = 0]
    /\ avg_order_value' = [avg_order_value EXCEPT ![s] = NaN]
    /\ total_orders' = [total_orders EXCEPT ![s] = 0]
    /\ UNCHANGED <<seed, cache, hist>>

\* A widget change: the session's run in flight (if any) is dropped and the
\* script starts over with the new value.
Rerun(s, w) ==
    /\ widgets' = [widgets EXCEPT ![s] = w]
    /\ pc' = [pc EXCEPT ![s] = "run"]
    /\ out' = [out EXCEPT ![s] = <<>>]
    /\ regions' = [regions EXCEPT ![s] = {}]
    /\ categories' = [categories EXCEPT ![s] = {}]
    /\ df_filtered' = [df_filtered EXCEPT ![s] = <<>>]
    /\ total_sales' = [total_sales EXCEPT ![s] = 0]
    /\ avg_order_value' = [avg_order_value EXCEPT ![s] = NaN]
    /\ total_orders' = [total_orders EXCEPT ![s] = 0]
    /\ UNCHANGED <<seed, cache, hist>>

\* The user selects or deselects one region in "Select Region(s):"
ChangeRegions(s, r) ==
    /\ pc[s] # "off"
    /\ widgets[s].shown
    /\ r \in Range(widgets[s].region_options)
    /\ Rerun(s, [widgets[s] EXCEPT !.regions = Toggle(@, r)])

\* The user selects or deselects one category in "Select Category(s):"
ChangeCategories(s, c) ==
    /\ pc[s] # "off"
    /\ widgets[s].shown
    /\ c \in Range(widgets[s].category_options)
    /\ Rerun(s, [widgets[s] EXCEPT !.categories = Toggle(@, c)])

Step(s) == Run(s) \/ Kpis(s) \/ Tabs(s)

FilterChange(s) ==
    \/ \E r \in Range(AllRegions) : ChangeRegions(s, r)
    \/ \E c \in Range(AllCategories) : ChangeCategories(s, c)

Next == \E s \in Sessions : Step(s) \/ FilterChange(s)

Spec == Init /\ [][Next]_vars

SpecSessions == InitSessions /\ [][Next]_vars

SpecHistory == InitHistory /\ [][Next]_vars

\* What a step of the run does to the session's position; a step of Next
\* is a Step(s) step exactly when it is a StepPc(s) step.
StepPc(s) ==
    \/ pc[s] = "run" /\ pc' = [pc EXCEPT ![s] = "kpis"]
    \/ pc[s] = "kpis" /\ pc' = [pc EXCEPT ![s] = "tabs"]
    \/ pc[s] = "tabs" /\ pc' = [pc EXCEPT ![s] = "idle"]

\* A step that changes a shown widget of the session: a FilterChange(s) step
Changed(s) == widgets[s].shown /\ widgets'[s] # widgets[s]

\* The script runner keeps executing a run that nothing interrupts.
FairSpec == Spec /\ \A s \in Sessions : WF_pc(StepPc(s))

\* ================================================================== claims
Filtered(s) == pc[s] \in {"kpis", "tabs", "idle"}
Passes(r, s) == r.Region \in regions[s] /\ r.Category \in categories[s]
AllRegionOptions == Range(RegionOptions(cache.data))
AllCategoryOptions == Range(CategoryOptions(cache.data))
ChartData(o, title) == o[CHOOSE i \in 1..Len(o) : o[i].title = title].data
CountKind(o, kind) == Cardinality({i \in 1..Len(o) : o[i].kind = kind})
ChartsIn(o, tab) ==
    Cardinality({i \in 1..Len(o) : o[i].kind = "plotly_chart" /\ o[i].tab = tab})

\* C1: once the filter step has run, the filtered view holds exactly the
\* rows of the table whose region is selected and whose category is
\* selected, in table order: nothing failing a test, nothing passing both
\* left out, nothing that is not a row of the table, nothing twice.
C1_FilterExact ==
    \A s \in Sessions : Filtered(s) =>
        LET v == df_filtered[s]
            d == cache.data
        IN  /\ \A i \in 1..Len(v) :
                  /\ Passes(v[i], s)
                  /\ \E k \in 1..Len(d) : d[k] = v[i]
            /\ \A k \in 1..Len(d) :
                  Passes(d[k], s) => \E i \in 1..Len(v) : v[i] = d[k]
            /\ \A i, j \in 1..Len(v) :
                  i < j => \E k, l \in 1..Len(d) : k < l /\ d[k] = v[i] /\ d[l] = v[j]
            /\ \A i, j \in 1..Len(v) : i # j => v[i] # v[j]

\* A view that keeps some rows and drops rows for each of the two tests
C1_Witness ==
    \E s \in Sessions :
        /\ Filtered(s)
        /\ Len(df_filtered[s]) > 0
        /\ \E k \in 1..Len(cache.data) :
              cache.data[k].Region \notin regions[s] /\ cache.data[k].Category \in categories[s]
        /\ \E k \in 1..Len(cache.data) :
              cache.data[k].Region \in regions[s] /\ cache.data[k].Category \notin categories[s]

\* C2: a completed run with an empty region or category selection has a
\* view of zero rows, total sales 0, total orders 0 and an average order
\* value that is not NaN.
C2_EmptySelectionNoNaN ==
    \A s \in Sessions :
        (pc[s] = "idle" /\ (regions[s] = {} \/ categories[s] = {})) =>
            /\ Len(df_filtered[s]) = 0
            /\ total_sales[s] = 0
            /\ total_orders[s] = 0
            /\ ~avg_order_value[s].nan
            /\ out[s][2].data # <<"$nan">>

C4_FullSelection ==
    \A s \in Sessions :
        (regions[s] = AllRegionOptions /\ categories[s] = AllCategoryOptions) =>
            /\ Filtered(s) => df_filtered[s] = cache.data
            /\ pc[s] \in {"tabs", "idle"} =>
                  /\ total_sales[s] = SumSeq([k \in 1..Len(cache.data) |->
                                                cache.data[k].TotalPrice])
                  /\ avg_order_value[s] = [nan |-> FALSE,
                                           num |-> total_sales[s],
                                           den |-> Len(cache.data)]
                  /\ total_orders[s] = Len(cache.data)

\* A completed run with everything selected, over a table with more than
\* one region and more than one category
C4_Witness ==
    \E s \in Sessions :
        /\ pc[s] = "idle"
        /\ regions[s] = AllRegionOptions
        /\ categories[s] = AllCategoryOptions
        /\ Cardinality(regions[s]) > 1
        /\ Cardinality(categories[s]) > 1
        /\ Len(df_filtered[s]) = NRows

\* C5: a completed run with the selections of the first completed run shows
\* the elements the first one showed, whatever ran in between.
C5_SameSelectionsSameResult ==
    \A s \in Sessions :
        (/\ pc[s] = "idle"
         /\ hist.first.have
         /\ regions[s] = hist.first.regions
         /\ categories[s] = hist.first.categories) => out[s] = hist.first.out

\* The first run's selections completed again after a run with others
C5_Witness ==
    \E s \in Sessions :
        /\ pc[s] = "idle"
        /\ hist.first.have
        /\ hist.others
        /\ regions[s] = hist.first.regions
        /\ categories[s] = hist.first.categories
        /\ Len(df_filtered[s]) > 0

\* C7: every row of the cached table and of every filtered view has
\* TotalPrice = Quantity * UnitPrice, and no step changes the loaded table.
RowsConsistent(rows) ==
    \A i \in 1..Len(rows) : rows[i].TotalPrice = rows[i].Quantity * rows[i].UnitPrice

C7_TotalPriceInvariant ==
    /\ [](RowsConsistent(cache.data) /\ \A s \in Sessions : RowsConsistent(df_filtered[s]))
    /\ [][cache.loaded => cache' = cache]_vars

\* A completed run over a non-empty proper part of the table
C7_Witness ==
    \E s \in Sessions :
        /\ pc[s] = "idle"
        /\ Len(df_filtered[s]) > 0
        /\ Len(df_filtered[s]) < Len(cache.data)
        /\ \E i \in 1..Len(df_filtered[s]) : df_filtered[s][i].Quantity > 1

\* C8 as stated: a completed run shows three KPIs and ten charts, one or two
\* charts in each of the five tabs.
C8_TenCharts ==
    \A s \in Sessions : pc[s] = "idle" =>
        /\ CountKind(out[s], "metric") = 3
        /\ CountKind(out[s], "plotly_chart") = 10
        /\ \A t \in 1..Len(TabNames) : ChartsIn(out[s], TabNames[t]) \in {1, 2}

\* C8 amended: a completed run shows three KPIs and nine charts, one or two
\* charts in each of the five tabs and none elsewhere.
C8_NineCharts ==
    \A s \in Sessions : pc[s] = "idle" =>
        /\ CountKind(out[s], "metric") = 3
        /\ CountKind(out[s], "plotly_chart") = 9
        /\ \A t \in 1..Len(TabNames) : ChartsIn(out[s], TabNames[t]) \in {1, 2}
        /\ \A i \in 1..Len(out[s]) :
              out[s][i].kind = "plotly_chart" => out[s][i].tab \in Range(TabNames)

\* A completed run after a filter change
C8_Witness ==
    \E s \in Sessions :
        /\ pc[s] = "idle"
        /\ Len(out[s]) > 0
        /\ regions[s] # AllRegionOptions

\* C10: both top-product lists of a completed run hold min(10, products
\* present) products with their sums over the view, largest first; no
\* product left out has a larger sum than a listed one; equal sums keep the
\* order of the sorted product names, also at the cut.
ProductsIn(v) == {v[i].Product : i \in 1..Len(v)}
ProductTotal(v, p, c) ==
    LET idx == {i \in 1..Len(v) : v[i].Product = p}
        f[S \in SUBSET idx] ==
            IF S = {} THEN 0
            ELSE LET i == CHOOSE i \in S : TRUE IN v[i][c] + f[S \ {i}]
    IN  f[idx]

TopListOk(L, v, c) ==
    LET P == ProductsIn(v)
        listed == {L[i].Product : i \in 1..Len(L)}
    IN  /\ Len(L) = Min(10, Cardinality(P))
        /\ listed \subseteq P
        /\ Cardinality(listed) = Len(L)
        /\ \A i \in 1..Len(L) : L[i][c] = ProductTotal(v, L[i].Product, c)
        /\ \A i, j \in 1..Len(L) : i < j =>
              \/ L[i][c] > L[j][c]
              \/ L[i][c] = L[j][c] /\ ProductRank(L[i].Product) < ProductRank(L[j].Product)
        /\ \A p \in P \ listed : \A i \in 1..Len(L) :
              \/ ProductTotal(v, p, c) < L[i][c]
              \/ /\ ProductTotal(v, p, c) = L[i][c]
                 /\ ProductRank(L[i].Product) < ProductRank(p)

C10_TopProducts ==
    \A s \in Sessions : pc[s] = "idle" =>
        /\ TopListOk(ChartData(out[s], "Top 10 Products by Total Sales"),
                     df_filtered[s], "TotalPrice")
        /\ TopListOk(ChartData(out[s], "Top 10 Products by Quantity Sold"),
                     df_filtered[s], "Quantity")

\* A completed run with more than ten products in view, lists that differ in
\* membership, and two listed products tied in quantity
C10_Witness ==
    \E s \in Sessions :
        /\ pc[s] = "idle"
        /\ Cardinality(ProductsIn(df_filtered[s])) > 10
        /\ LET a == ChartData(out[s], "Top 10 Products by Total Sales")
               b == ChartData(out[s], "Top 10 Products by Quantity Sold")
           IN  /\ {a[i].Product : i \in 1..Len(a)} # {b[i].Product : i \in 1..Len(b)}
               /\ \E i, j \in 1..Len(b) : i # j /\ b[i].Quantity = b[j].Quantity

\* What a complete run of the script shows for the selections regs, cats
Pipeline(df, regs, cats) ==
    LET v == Filter(df, regs, cats)
    IN  KpiElements(TotalSales(v), AvgOrderValue(v), TotalOrders(v)) \o TabElements(v)

\* All KPIs and charts of a completed run come from the one pair of
\* selections the run read when it started, which is still the session's.
OneSelection(s) ==
    pc[s] = "idle" =>
        /\ regions[s] = widgets[s].regions
        /\ categories[s] = widgets[s].categories
        /\ out[s] = Pipeline(cache.data, regions[s], categories[s])

\* C9 as stated: every filter change is eventually followed by a completed
\* run, and a completed run shows results of one pair of selections only.
C9_EveryChangeRendered ==
    /\ \A s \in Sessions : (pc[s] = "run") ~> (pc[s] = "idle")
    /\ [](\A s \in Sessions : OneSelection(s))

\* C9 amended: a filter change is eventually followed by a completed run
\* unless further filter changes of the session keep coming; and a completed
\* run shows results of one pair of selections only.
C9_RenderedUnlessSuperseded ==
    /\ \A s \in Sessions :
          (<>[][~Changed(s)]_vars) => ((pc[s] = "run") ~> (pc[s] = "idle"))
    /\ [](\A s \in Sessions : OneSelection(s))

\* A run completed for selections other than the default ones, so after at
\* least two filter changes
C9_Witness ==
    \E s \in Sessions :
        /\ pc[s] = "idle"
        /\ widgets[s].regions # AllRegionOptions
        /\ widgets[s].categories # AllCategoryOptions
        /\ Len(df_filtered[s]) > 0
        /\ CountKind(out[s], "metric") = 3
        /\ CountKind(out[s], "plotly_chart") > 0

\* C6: a change of one session's widgets leaves every other session's
\* selections, position, view and shown elements as they were, and what a
\* session has filtered and shown is determined by its own selections.
OwnSelectionsOnly(s) ==
    /\ Filtered(s) =>
          df_filtered[s] = Filter(cache.data, widgets[s].regions, widgets[s].categories)
    /\ pc[s] = "idle" =>
          out[s] = Pipeline(cache.data, widgets[s].regions, widgets[s].categories)

C6_SessionIsolation ==
    /\ [](\A s \in Sessions : OwnSelectionsOnly(s))
    /\ [][\A s \in Sessions : widgets'[s] # widgets[s] =>
            \A t \in Sessions \ {s} :
                /\ widgets'[t] = widgets[t]
                /\ pc'[t] = pc[t]
                /\ df_filtered'[t] = df_filtered[t]
                /\ out'[t] = out[t]]_vars

\* Two sessions with completed runs for different selections, showing
\* different elements
C6_Witness ==
    /\ pc["s1"] = "idle"
    /\ pc["s2"] = "idle"
    /\ widgets["s1"].regions # widgets["s2"].regions
    /\ widgets["s1"].categories # widgets["s2"].categories
    /\ Len(df_filtered["s1"]) > 0
    /\ Len(df_filtered["s2"]) > 0
    /\ out["s1"] # out["s2"]
====
